---- MODULE Spec2Model ----
(***************************************************************************)
(* Model of the keyed delay-session engine of delay-http-rs:               *)
(*   src/src/session.rs        the per-key session state machine           *)
(*   src/src/session_store.rs  the registry (push_signal, driver task,     *)
(*                             removal guards, result stream)              *)
(*   src/src/decoder.rs        the decoders                                *)
(*                                                                         *)
(* Time is the simulated clock of the runtime: it advances one unit at a   *)
(* time and only while no spawned task has a step it can take (a session   *)
(* whose timer has expired or whose channel holds a signal is resumed      *)
(* before the clock moves on).  Callers of push_signal, the consumer of    *)
(* the result stream and the owner of the registry handle are the          *)
(* environment and act at any moment.                                      *)
(*                                                                         *)
(* Granularity: every access of a driver task to memory shared with other  *)
(* threads is a step of its own (the session's resumption, try_recv in     *)
(* start_with_receiver, the drop of the receiver, the first poll of the    *)
(* join!), because the runtime is multi-threaded and push_signal runs      *)
(* concurrently on other threads.  A critical section of the map lock that *)
(* does not suspend is one step.                                           *)
(***************************************************************************)
EXTENDS Integers, Sequences, FiniteSets, TLC

\* ------------------------------------------------------------------ bounds
\* Number of push_signal calls of one run.
MaxPush == 4
\* Last value of the simulated clock.
MaxTime == 4
\* timeout_duration, the registry's configuration value.
TimeoutDuration == 2
\* A caller passes an instant it sampled at most MaxLag clock units ago.
MaxLag == 1
\* threshold of the ThresholdDelayDecoder the callers' factory builds.
Threshold == 1
\* Capacity of a session's inbound channel (channel(8) in signal_channel),
\* scaled down so that a full channel is reachable within MaxPush calls.
SignalCapacity == 2
\* Capacity of the result channel (channel(8) in delay_session_store),
\* scaled down likewise.
ResultCapacity == 1

\* Largest duration pushed into the AverageDelayDecoder exercised on its own.
MaxDuration == 3
\* Number of durations pushed into it.
MaxPushed == 3

Keys == {"a", "b"}
Chains == 1..MaxPush
None == 0

\* ----------------------------------------------------------------- helpers
\* DurationSince with its operands exchanged.
DurationSinceSwapped(later, earlier) ==
    IF earlier >= later THEN earlier - later ELSE 0

\* Instant - Instant: duration_since saturates to zero.
DurationSince(later, earlier) == IF later >= earlier THEN later - earlier ELSE 0

\* The decoder_factory of the callers builds a ThresholdDelayDecoder.
\* ThresholdDelayDecoder::push_duration
PushDuration(bits, duration) == Append(bits, duration >= Threshold)

\* ThresholdDelayDecoder::close
Close(bits) == bits

\* AverageDelayDecoder::push_duration
AveragePushDuration(durations, duration) == Append(durations, duration)

\* self.durations.iter().sum()
RECURSIVE DurationSum(_)
DurationSum(durations) ==
    IF durations = <<>> THEN 0
    ELSE Head(durations) + DurationSum(Tail(durations))

\* AverageClose comparing with > instead of >=.
AverageCloseStrict(durations) ==
    IF Len(durations) < 2
    THEN <<>>
    ELSE LET duration_sum     == DurationSum(durations)
             average_duration == duration_sum \div Len(durations)
         IN  [i \in 1..Len(durations) |-> durations[i] > average_duration]

\* AverageDelayDecoder::close; Duration / u32 truncates to a whole nanosecond,
\* the unit of the durations here.
AverageClose(durations) ==
    IF Len(durations) < 2
    THEN <<>>
    ELSE LET duration_sum     == DurationSum(durations)
             average_duration == duration_sum \div Len(durations)
         IN  [i \in 1..Len(durations) |-> durations[i] >= average_duration]

\* Signal { instant, timeout_instant } as push_signal builds it.  History:
\* key is the key of the call that built it.
MakeSignal(key, instant) ==
    [instant |-> instant, timeout_instant |-> instant + TimeoutDuration,
     key |-> key]

\* ------------------------------------------------------------------- state
VARIABLES
    now,        \* the simulated clock
    storeAlive, \* the DelaySessionStore handle has not been dropped
    map,        \* sender_map: key -> chain whose SignalSender it holds, or None
    sending,    \* the push_signal suspended in sender.send(), holding the map lock
                \* (its instant, the chain of its sender, its key)
    chan,       \* per chain: the buffer of the inbound channel
    rcv,        \* per chain: the SignalReceiver has not been dropped
    drv,        \* per chain: the driver task and the session it owns
    removers,   \* chains whose dropped guard spawned a removal task
    results,    \* buffer of the result channel
    resWait,    \* FIFO of the chains suspended in result_sender.send()
    stream,     \* history: the items poll_next has delivered, in order
    calls,      \* history: number of push_signal calls made
    nClosed,    \* history: number of generations that have finished
    lost,       \* history: how successfully sent signals were lost, if any
    lastPush,   \* history: key and outcome of the latest push_signal call, and
                \* whether it retried a failed one
    scenario,   \* history: the calls so far, while they are one key's in-window run
    averageDecoder \* an AverageDelayDecoder exercised on its own: the durations
                \* pushed, whether close() was called and what it returned

vars == <<now, storeAlive, map, sending, chan, rcv, drv, removers,
          results, resWait, stream, calls, nClosed, lost, lastPush, scenario,
                   averageDecoder>>

\* History in the driver's record: taken counts the signals the session has
\* accepted, batch those it accepted in its latest resumption.
\* The result a driver holds between the end of a generation and its send.
\* History: ord ranks the generation among those finished, marked tells that
\* it was open when the handle was dropped, why, last, taken and overdue
\* describe the close (its cause, the last accepted instant, the number of
\* signals accepted, whether the last deadline had passed before the session
\* was awaited with it).
NoResult ==
    [bits |-> <<>>, ord |-> 0, marked |-> FALSE, why |-> "-", last |-> 0,
     taken |-> 0, overdue |-> FALSE]

NoDriver ==
    [key |-> "-", pc |-> "none", open |-> FALSE, last |-> 0, deadline |-> 0,
     bits |-> <<>>, taken |-> 0, batch |-> 0, overdue |-> FALSE,
     marked |-> FALSE, res |-> NoResult,
     remPending |-> FALSE]

\* The Arc of the map is alive: the handle, or a task that upgraded its Weak.
StrongRefs(alive, d, rem) ==
    alive \/ rem # {} \/ \E c \in Chains : d[c].remPending

MapAlive == StrongRefs(storeAlive, drv, removers)

\* Dropping the last Arc drops the HashMap and every sender in it.
MapAfter(m, alive, d, rem) ==
    IF StrongRefs(alive, d, rem) THEN m ELSE [k \in Keys |-> None]

\* The channel of chain c still has a Sender (the one stored in the map).
SenderAlive(m, c) == \E k \in Keys : m[k] = c

\* No push_signal is suspended in its send.
NoSend == [instant |-> 0, chain |-> None, key |-> "-"]

\* The map lock is free: only a suspended send holds it across steps.
LockFree == sending = NoSend

Init ==
    /\ now = 0
    /\ storeAlive = TRUE
    /\ map = [k \in Keys |-> None]
    /\ sending = NoSend
    /\ chan = [c \in Chains |-> <<>>]
    /\ rcv = [c \in Chains |-> FALSE]
    /\ drv = [c \in Chains |-> NoDriver]
    /\ removers = {}
    /\ results = <<>>
    /\ resWait = <<>>
    /\ stream = <<>>
    /\ calls = 0
    /\ nClosed = 0
    /\ lost = [late |-> FALSE, discarded |-> FALSE]
    /\ lastPush = [key |-> "-", outcome |-> "none", retry |-> FALSE]
    /\ scenario = [ok |-> TRUE, key |-> "-", instants |-> <<>>]
    /\ averageDecoder = [durations |-> <<>>, closed |-> FALSE, bits |-> <<>>]

\* ------------------------------------------------------------- push_signal
\* History: the calls so far are all for one key, each passing the present
\* time, each later than the one before and before its timeout_instant, and
\* each returned Ok without suspending.
ScenarioAfter(key, instant, outcome) ==
    LET ts == scenario.instants
        ok == /\ scenario.ok
              /\ scenario.key \in {"-", key}
              /\ instant = now
              /\ outcome \in {"created", "sent"}
              /\ ts = <<>> \/ (ts[Len(ts)] < instant /\ instant < ts[Len(ts)] + TimeoutDuration)
    IN  IF ok THEN [ok |-> TRUE, key |-> key, instants |-> Append(ts, instant)]
        ELSE [ok |-> FALSE, key |-> "-", instants |-> <<>>]

\* History: the call for key follows a failed call for the same key.
Retry(key) == lastPush.key = key /\ lastPush.outcome = "failed"

\* A chain identifier is free once its driver has ended and nothing names it.
FreeChain(c) ==
    /\ drv[c].pc \in {"none", "done"}
    /\ ~SenderAlive(map, c)
    /\ sending.chain # c

\* The first chain identifier not in use.
FreshChain == CHOOSE c \in Chains : FreeChain(c) /\ \A b \in 1..(c - 1) : ~FreeChain(b)

\* DelaySession::new through delay_session: Open with the given start and deadline.
NewSession(key, start_instant, timeout_instant) ==
    [key |-> key, pc |-> "await", open |-> TRUE, last |-> start_instant,
     deadline |-> timeout_instant, bits |-> <<>>, taken |-> 0, batch |-> 0,
     overdue |-> now > timeout_instant,
     marked |-> FALSE, res |-> NoResult, remPending |-> FALSE]

\* PushVacant without entry.insert(signal_sender): the key stays vacant.
PushVacantNoInsert(key, instant) ==
    LET c == FreshChain IN
    /\ map[key] = None
    /\ map' = map
    /\ drv' = [drv EXCEPT ![c] = NewSession(key, instant, instant + TimeoutDuration)]
    /\ rcv' = [rcv EXCEPT ![c] = TRUE]
    /\ lastPush' = [key |-> key, outcome |-> "created", retry |-> Retry(key)]
    /\ scenario' = ScenarioAfter(key, instant, "created")
    /\ UNCHANGED <<sending, chan>>

\* Entry::Vacant: create the session, insert its sender, spawn the driver.
PushVacant(key, instant) ==
    LET c == FreshChain IN
    /\ map[key] = None
    /\ map' = [map EXCEPT ![key] = c]
    /\ drv' = [drv EXCEPT ![c] = NewSession(key, instant, instant + TimeoutDuration)]
    /\ rcv' = [rcv EXCEPT ![c] = TRUE]
    /\ lastPush' = [key |-> key, outcome |-> "created", retry |-> Retry(key)]
    /\ scenario' = ScenarioAfter(key, instant, "created")
    /\ UNCHANGED <<sending, chan>>

\* PushOccupied sending on the sender of the first chain that has a receiver,
\* whatever its key.
PushOccupiedAnySender(key, instant) ==
    LET c == CHOOSE b \in Chains : rcv[b] /\ \A a \in 1..(b - 1) : ~rcv[a]
        outcome == IF Len(chan[c]) < SignalCapacity THEN "sent" ELSE "suspended"
    IN
    /\ map[key] # None
    /\ \E b \in Chains : rcv[b]
    /\ chan' = IF outcome = "sent"
               THEN [chan EXCEPT ![c] = Append(@, MakeSignal(key, instant))]
               ELSE chan
    /\ sending' = IF outcome = "suspended"
                  THEN [instant |-> instant, chain |-> c, key |-> key]
                  ELSE sending
    /\ lastPush' = [key |-> key, outcome |-> outcome, retry |-> Retry(key)]
    /\ scenario' = ScenarioAfter(key, instant, outcome)
    /\ UNCHANGED <<map, drv, rcv>>

\* Entry::Occupied: sender.send(signal).await with the lock guard still alive
\* (the guard is a temporary of the match scrutinee).
PushOccupied(key, instant) ==
    LET c == map[key]
        outcome == IF ~rcv[c] THEN "failed"
                   ELSE IF Len(chan[c]) < SignalCapacity THEN "sent"
                   ELSE "suspended"
    IN
    /\ map[key] # None
    /\ chan' = IF outcome = "sent"
               THEN [chan EXCEPT ![c] = Append(@, MakeSignal(key, instant))]
               ELSE chan
    /\ sending' = IF outcome = "suspended"
                  THEN [instant |-> instant, chain |-> c, key |-> key]
                  ELSE sending
    /\ lastPush' = [key |-> key, outcome |-> outcome, retry |-> Retry(key)]
    /\ scenario' = ScenarioAfter(key, instant, outcome)
    /\ UNCHANGED <<map, drv, rcv>>

PushSignal(key, instant) ==
    /\ storeAlive
    /\ LockFree
    /\ calls < MaxPush
    /\ calls' = calls + 1
    /\ \/ PushVacant(key, instant)
       \/ PushOccupied(key, instant)
    /\ UNCHANGED <<now, storeAlive, removers, results, resWait, stream, nClosed, lost,
                   averageDecoder>>

\* PushResume completing only when room was made: a send whose receiver was
\* dropped stays suspended.
PushResumeRoomOnly ==
    LET c == sending.chain IN
    /\ sending # NoSend
    /\ rcv[c]
    /\ Len(chan[c]) < SignalCapacity
    /\ chan' = [chan EXCEPT ![c] = Append(@, MakeSignal(sending.key, sending.instant))]
    /\ lastPush' = [lastPush EXCEPT !.outcome = "sent"]
    /\ sending' = NoSend
    /\ UNCHANGED <<now, storeAlive, map, rcv, drv, removers, results, resWait,
                   stream, calls, nClosed, lost, scenario,
                   averageDecoder>>

\* The suspended send completes: room was made, or the receiver was dropped.
PushResume ==
    LET c == sending.chain IN
    /\ sending # NoSend
    /\ IF ~rcv[c]
       THEN /\ lastPush' = [lastPush EXCEPT !.outcome = "failed"]
            /\ UNCHANGED chan
       ELSE /\ Len(chan[c]) < SignalCapacity
            /\ chan' = [chan EXCEPT ![c] = Append(@, MakeSignal(sending.key, sending.instant))]
            /\ lastPush' = [lastPush EXCEPT !.outcome = "sent"]
    /\ sending' = NoSend
    /\ UNCHANGED <<now, storeAlive, map, rcv, drv, removers, results, resWait,
                   stream, calls, nClosed, lost, scenario,
                   averageDecoder>>

\* --------------------------------------------------------------- session
\* Drain reading one signal only in a resumption.
DrainOne(q, senders, last, deadline, bits, taken) ==
    IF q = <<>>
    THEN [why |-> IF senders THEN "open" ELSE "gone", q |-> q, last |-> last,
          deadline |-> deadline, bits |-> bits, taken |-> taken]
    ELSE LET signal == Head(q) IN
         IF signal.instant >= deadline
         THEN [why |-> "late", q |-> Tail(q), last |-> last,
               deadline |-> deadline, bits |-> bits, taken |-> taken]
         ELSE [why |-> "open", q |-> Tail(q), last |-> signal.instant,
               deadline |-> signal.timeout_instant,
               bits |-> PushDuration(bits, DurationSince(signal.instant, last)),
               taken |-> taken + 1]

\* The receive loop of DelaySessionInner::poll on an Open session: q is the
\* channel buffer, senders whether a Sender is left.  Each signal read is
\* judged against the deadline in force; a signal at or past it closes the
\* session (poll_recv has already taken it out of the channel).
RECURSIVE Drain(_, _, _, _, _, _)
Drain(q, senders, last, deadline, bits, taken) ==
    IF q = <<>>
    THEN [why |-> IF senders THEN "open" ELSE "gone", q |-> q, last |-> last,
          deadline |-> deadline, bits |-> bits, taken |-> taken]
    ELSE LET signal == Head(q) IN
         IF signal.instant >= deadline
         THEN [why |-> "late", q |-> Tail(q), last |-> last,
               deadline |-> deadline, bits |-> bits, taken |-> taken]
         ELSE Drain(Tail(q), senders, signal.instant, signal.timeout_instant,
                    PushDuration(bits, DurationSince(signal.instant, last)),
                    taken + 1)

\* Poll without timeout_sleep.reset(new_timeout_instant): the timer keeps the
\* deadline it was armed with.
PollNoReset(c) ==
    LET d == Drain(chan[c], SenderAlive(map, c), drv[c].last, drv[c].deadline,
                   drv[c].bits, drv[c].taken)
    IN  IF d.why = "open" /\ now >= drv[c].deadline
        THEN [d EXCEPT !.why = "timer", !.deadline = drv[c].deadline]
        ELSE [d EXCEPT !.deadline = drv[c].deadline]

\* One resumption of the session of chain c: the receive loop, then the
\* timer, re-armed with the last accepted signal's timeout_instant.
Poll(c) ==
    LET d == Drain(chan[c], SenderAlive(map, c), drv[c].last, drv[c].deadline,
                   drv[c].bits, drv[c].taken)
    IN  IF d.why = "open" /\ now >= d.deadline THEN [d EXCEPT !.why = "timer"] ELSE d

\* The session of chain c has an event to be resumed for.
SessionReady(c) ==
    /\ drv[c].pc = "await"
    /\ \/ chan[c] # <<>>
       \/ ~SenderAlive(map, c)
       \/ now >= drv[c].deadline

\* close_assert_open: the session becomes Closed and yields decoder.close().
Closed(d, p, ord) ==
    [d EXCEPT !.pc = "start", !.open = FALSE, !.last = 0, !.deadline = 0,
              !.bits = <<>>, !.taken = 0, !.batch = 0, !.overdue = FALSE,
              !.marked = FALSE,
              !.res = [bits |-> Close(p.bits), ord |-> ord,
                       marked |-> d.marked, why |-> p.why, last |-> p.last,
                       taken |-> p.taken,
                       overdue |-> IF p.taken > d.taken THEN now > p.deadline
                                   ELSE d.overdue]]

\* session.await of the driver (line 117): one resumption of the session.
SessionPoll(c) ==
    /\ SessionReady(c)
    /\ LET p == Poll(c) IN
       /\ chan' = [chan EXCEPT ![c] = p.q]
       /\ lost' = [lost EXCEPT !.late = @ \/ p.why = "late"]
       /\ IF p.why # "open"
          THEN /\ drv' = [drv EXCEPT ![c] = Closed(@, p, nClosed + 1)]
               /\ nClosed' = nClosed + 1
          ELSE /\ drv' = [drv EXCEPT ![c].last = p.last, ![c].deadline = p.deadline,
                                     ![c].bits = p.bits, ![c].taken = p.taken,
                                     ![c].batch = p.taken - drv[c].taken,
                                     ![c].overdue = now > p.deadline]
               /\ UNCHANGED nClosed
    /\ UNCHANGED <<now, storeAlive, map, sending, rcv, removers, results, resWait,
                   stream, calls, lastPush, scenario,
                   averageDecoder>>

\* ---------------------------------------------------------------- driver
\* (key, result) as sent on the result channel; ord, marked and at are history:
\* the rank of the generation among those finished, whether it was open when
\* the handle was dropped, and the time of the send.
Item(c) ==
    [key |-> drv[c].key, bits |-> drv[c].res.bits, ord |-> drv[c].res.ord,
     marked |-> drv[c].res.marked, at |-> now]

\* result_sender.send() completes at once: a free slot and nobody queued before.
ResultRoom == Len(results) < ResultCapacity /\ resWait = <<>>

\* The driver task has returned.
Done == [NoDriver EXCEPT !.pc = "done"]

\* Seeded with a duration pushed for the seed.
SeededWithDuration(d, signal) ==
    [d EXCEPT !.open = TRUE, !.last = signal.instant,
              !.deadline = signal.timeout_instant,
              !.bits = PushDuration(<<>>, DurationSince(signal.instant, d.res.last)),
              !.overdue = now > signal.timeout_instant]

\* DelaySession::start_with_receiver, try_recv returned a signal: the next
\* generation is Open.
Seeded(d, signal) ==
    [d EXCEPT !.open = TRUE, !.last = signal.instant,
              !.deadline = signal.timeout_instant,
              !.overdue = now > signal.timeout_instant]

\* The next generation is Open: the driver re-arms the guard and sends the
\* result (lines 147-156).
StartOpen(c) ==
    /\ chan[c] # <<>>
    /\ chan' = [chan EXCEPT ![c] = Tail(@)]
    /\ IF ResultRoom
       THEN /\ results' = Append(results, Item(c))
            /\ drv' = [drv EXCEPT ![c] = [Seeded(@, Head(chan[c])) EXCEPT
                                             !.pc = "await", !.res = NoResult]]
            /\ UNCHANGED resWait
       ELSE /\ resWait' = Append(resWait, c)
            /\ drv' = [drv EXCEPT ![c] = [Seeded(@, Head(chan[c])) EXCEPT
                                             !.pc = "send_open"]]
            /\ UNCHANGED results

\* StartClosed with the driver going back to session.await.
StartClosedAwaited(c) ==
    /\ chan[c] = <<>>
    /\ drv' = [drv EXCEPT ![c].pc = "await", ![c].res = NoResult]
    /\ UNCHANGED <<chan, results, resWait>>

\* try_recv returned Err: the next generation is Closed.
StartClosed(c) ==
    /\ chan[c] = <<>>
    /\ drv' = [drv EXCEPT ![c].pc = "drop"]
    /\ UNCHANGED <<chan, results, resWait>>

\* StartWithReceiver removing the key when the next generation is open.
StartWithReceiverRemoves(c) ==
    /\ drv[c].pc = "start"
    /\ \/ StartOpen(c) /\ map' = [map EXCEPT ![drv[c].key] = None]
       \/ StartClosed(c) /\ map' = map
    /\ UNCHANGED <<now, storeAlive, sending, rcv, removers, stream, calls,
                   nClosed, lost, lastPush, scenario,
                   averageDecoder>>

StartWithReceiver(c) ==
    /\ drv[c].pc = "start"
    /\ \/ StartOpen(c)
       \/ StartClosed(c)
    /\ UNCHANGED <<now, storeAlive, map, sending, rcv, removers, stream, calls,
                   nClosed, lost, lastPush, scenario,
                   averageDecoder>>

\* The receiver moved into start_with_receiver is dropped when it returns
\* a Closed session; what was sent meanwhile is dropped with it.
DropReceiver(c) ==
    /\ drv[c].pc = "drop"
    /\ rcv' = [rcv EXCEPT ![c] = FALSE]
    /\ chan' = [chan EXCEPT ![c] = <<>>]
    /\ lost' = [lost EXCEPT !.discarded = @ \/ chan[c] # <<>>]
    /\ drv' = [drv EXCEPT ![c].pc = "close"]
    /\ UNCHANGED <<now, storeAlive, map, sending, removers, results, resWait,
                   stream, calls, nClosed, lastPush, scenario,
                   averageDecoder>>

\* RemoveKey leaving the entry in place.
RemoveKeyKept(m, key) == m

\* map.lock().await.remove(&key)
RemoveKey(m, key) == [m EXCEPT ![key] = None]

\* ClosePath without map.lock().await.remove(&key): only the result is sent.
ClosePathNoRemove(c) ==
    /\ drv[c].pc = "close"
    /\ drv' = [drv EXCEPT ![c] = IF ResultRoom THEN Done
                                 ELSE [@ EXCEPT !.pc = "send_last"]]
    /\ map' = MapAfter(map, storeAlive, drv', removers)
    /\ IF ResultRoom
       THEN results' = Append(results, Item(c)) /\ UNCHANGED resWait
       ELSE resWait' = Append(resWait, c) /\ UNCHANGED results
    /\ UNCHANGED <<now, storeAlive, sending, chan, rcv, removers, stream, calls,
                   nClosed, lost, lastPush, scenario,
                   averageDecoder>>

\* The close path (lines 129-146) up to its first suspension: upgrade the
\* Weak; in the join! poll the removal, then the send.
ClosePath(c) ==
    LET key    == drv[c].key
        remove == MapAlive /\ LockFree
        wait   == MapAlive /\ ~LockFree
        after  == IF ResultRoom
                  THEN (IF wait THEN [drv[c] EXCEPT !.pc = "join", !.remPending = TRUE,
                                                    !.res = NoResult]
                        ELSE Done)
                  ELSE [drv[c] EXCEPT !.pc = IF MapAlive THEN "join" ELSE "send_last",
                                      !.remPending = wait]
        d1     == [drv EXCEPT ![c] = after]
    IN
    /\ drv[c].pc = "close"
    /\ drv' = d1
    /\ map' = MapAfter(IF remove THEN RemoveKey(map, key) ELSE map,
                       storeAlive, d1, removers)
    /\ IF ResultRoom
       THEN results' = Append(results, Item(c)) /\ UNCHANGED resWait
       ELSE resWait' = Append(resWait, c) /\ UNCHANGED results
    /\ UNCHANGED <<now, storeAlive, sending, chan, rcv, removers, stream, calls,
                   nClosed, lost, lastPush, scenario,
                   averageDecoder>>

InResWait(c) == \E i \in 1..Len(resWait) : resWait[i] = c

\* The removal of the join! gets the lock it was waiting for.
JoinRemove(c) ==
    LET d1 == [drv EXCEPT ![c] = IF InResWait(c)
                                 THEN [@ EXCEPT !.remPending = FALSE]
                                 ELSE Done]
    IN
    /\ drv[c].pc = "join"
    /\ drv[c].remPending
    /\ LockFree
    /\ drv' = d1
    /\ map' = MapAfter(RemoveKey(map, drv[c].key), storeAlive, d1, removers)
    /\ UNCHANGED <<now, storeAlive, sending, chan, rcv, removers, results, resWait,
                   stream, calls, nClosed, lost, lastPush, scenario,
                   averageDecoder>>

\* ResultSend serving the chain queued last instead of the one queued first.
ResultSendLast ==
    /\ resWait # <<>>
    /\ Len(results) < ResultCapacity
    /\ LET c == resWait[Len(resWait)] IN
       /\ results' = Append(results, Item(c))
       /\ resWait' = SubSeq(resWait, 1, Len(resWait) - 1)
       /\ drv' = [drv EXCEPT ![c] =
                     IF @.pc = "send_open"
                     THEN [@ EXCEPT !.pc = "await", !.res = NoResult,
                                   !.overdue = now > drv[c].deadline]
                     ELSE IF @.pc = "join" /\ @.remPending THEN [@ EXCEPT !.res = NoResult]
                     ELSE Done]
    /\ UNCHANGED <<now, storeAlive, map, sending, chan, rcv, removers, stream,
                   calls, nClosed, lost, lastPush, scenario,
                   averageDecoder>>

\* The first chain queued on the result channel gets the slot that was freed.
ResultSend ==
    /\ resWait # <<>>
    /\ Len(results) < ResultCapacity
    /\ LET c == Head(resWait) IN
       /\ results' = Append(results, Item(c))
       /\ resWait' = Tail(resWait)
       /\ drv' = [drv EXCEPT ![c] =
                     IF @.pc = "send_open"
                     THEN [@ EXCEPT !.pc = "await", !.res = NoResult,
                                   !.overdue = now > drv[c].deadline]
                     ELSE IF @.pc = "join" /\ @.remPending THEN [@ EXCEPT !.res = NoResult]
                     ELSE Done]
    /\ UNCHANGED <<now, storeAlive, map, sending, chan, rcv, removers, stream,
                   calls, nClosed, lost, lastPush, scenario,
                   averageDecoder>>

\* DelaySessionStream::poll_next
PollNext ==
    /\ results # <<>>
    /\ stream' = Append(stream, Head(results))
    /\ results' = Tail(results)
    /\ UNCHANGED <<now, storeAlive, map, sending, chan, rcv, drv, removers, resWait,
                   calls, nClosed, lost, lastPush, scenario,
                   averageDecoder>>

\* DropStore with the map and its senders kept alive.
DropStoreKeepMap ==
    /\ storeAlive
    /\ LockFree
    /\ storeAlive' = FALSE
    /\ map' = map
    /\ drv' = [c \in Chains |-> [drv[c] EXCEPT !.marked = drv[c].open]]
    /\ UNCHANGED <<now, sending, chan, rcv, removers, results, resWait, stream,
                   calls, nClosed, lost, lastPush, scenario,
                   averageDecoder>>

\* The registry handle is dropped (no push_signal borrows it).  History: the
\* sessions open at this moment are marked.
DropStore ==
    /\ storeAlive
    /\ LockFree
    /\ storeAlive' = FALSE
    /\ map' = MapAfter(map, FALSE, drv, removers)
    /\ drv' = [c \in Chains |-> [drv[c] EXCEPT !.marked = drv[c].open]]
    /\ UNCHANGED <<now, sending, chan, rcv, removers, results, resWait, stream,
                   calls, nClosed, lost, lastPush, scenario,
                   averageDecoder>>

\* ---------------------------------------------------------- cancellation
\* The driver task is suspended with a removal guard armed: awaiting the
\* session (line 117) or the result send of a rollover (line 154).
GuardArmed(c) == drv[c].pc \in {"await", "send_open"}

\* The driver task owns the session and its receiver.
OwnsReceiver(c) == drv[c].pc \in {"await", "send_open"}

Aborted(key) == [NoDriver EXCEPT !.pc = "aborted", !.key = key]

\* Abort with a removal guard armed at every suspension point, the join! and
\* the last send included.
AbortAlwaysGuarded(c) ==
    LET d1   == [drv EXCEPT ![c] = Aborted(drv[c].key)]
        rem1 == IF MapAlive THEN removers \cup {c} ELSE removers
    IN
    /\ drv[c].pc \in {"await", "send_open", "join", "send_last"}
    /\ drv' = d1
    /\ removers' = rem1
    /\ map' = MapAfter(map, storeAlive, d1, rem1)
    /\ IF OwnsReceiver(c)
       THEN /\ rcv' = [rcv EXCEPT ![c] = FALSE]
            /\ chan' = [chan EXCEPT ![c] = <<>>]
            /\ lost' = [lost EXCEPT !.discarded = @ \/ chan[c] # <<>>]
       ELSE UNCHANGED <<rcv, chan, lost>>
    /\ resWait' = SelectSeq(resWait, LAMBDA w : w # c)
    /\ UNCHANGED <<now, storeAlive, sending, results, stream, calls, nClosed,
                   lastPush, scenario,
                   averageDecoder>>

\* The driver task of chain c is dropped at one of its suspension points:
\* what it owns is dropped, and an armed guard spawns its removal task if the
\* Weak still upgrades (Drop for UniqueSenderRemoveGuard).
Abort(c) ==
    LET d1   == [drv EXCEPT ![c] = Aborted(drv[c].key)]
        rem1 == IF GuardArmed(c) /\ MapAlive THEN removers \cup {c} ELSE removers
    IN
    /\ drv[c].pc \in {"await", "send_open", "join", "send_last"}
    /\ drv' = d1
    /\ removers' = rem1
    /\ map' = MapAfter(map, storeAlive, d1, rem1)
    /\ IF OwnsReceiver(c)
       THEN /\ rcv' = [rcv EXCEPT ![c] = FALSE]
            /\ chan' = [chan EXCEPT ![c] = <<>>]
            /\ lost' = [lost EXCEPT !.discarded = @ \/ chan[c] # <<>>]
       ELSE UNCHANGED <<rcv, chan, lost>>
    /\ resWait' = SelectSeq(resWait, LAMBDA w : w # c)
    /\ UNCHANGED <<now, storeAlive, sending, results, stream, calls, nClosed,
                   lastPush, scenario,
                   averageDecoder>>

\* The task a dropped guard spawned: map.lock().await.remove(&key).
GuardRemove(c) ==
    /\ c \in removers
    /\ LockFree
    /\ removers' = removers \ {c}
    /\ map' = MapAfter(RemoveKey(map, drv[c].key), storeAlive, drv, removers \ {c})
    /\ UNCHANGED <<now, storeAlive, sending, chan, rcv, drv, results, resWait,
                   stream, calls, nClosed, lost, lastPush, scenario,
                   averageDecoder>>

\* ----------------------------------------------------------------- clock
\* A spawned task has a step to take.
TaskReady ==
    \/ \E c \in Chains :
          \/ SessionReady(c)
          \/ drv[c].pc \in {"start", "drop", "close"}
          \/ drv[c].pc = "join" /\ drv[c].remPending /\ LockFree
    \/ resWait # <<>> /\ Len(results) < ResultCapacity
    \/ removers # {} /\ LockFree

Tick ==
    /\ now < MaxTime
    /\ ~TaskReady
    /\ now' = now + 1
    /\ UNCHANGED <<storeAlive, map, sending, chan, rcv, drv, removers, results,
                   resWait, stream, calls, nClosed, lost, lastPush, scenario,
                   averageDecoder>>

\* The instants a caller may pass at the present time.
Instants == {t \in 0..now : now - t <= MaxLag}

Next ==
    \/ \E k \in Keys, t \in Instants : PushSignal(k, t)
    \/ PushResume
    \/ \E c \in Chains : SessionPoll(c)
    \/ \E c \in Chains : StartWithReceiver(c)
    \/ \E c \in Chains : DropReceiver(c)
    \/ \E c \in Chains : ClosePath(c)
    \/ \E c \in Chains : JoinRemove(c)
    \/ ResultSend
    \/ PollNext
    \/ Tick

\* The registry with its handle kept and no task cancelled.
Spec == Init /\ [][Next]_vars

\* The runtime resumes every task that can proceed, a suspended push_signal
\* included, and the result stream keeps being consumed.
Fairness ==
    /\ WF_vars(PushResume)
    /\ WF_vars(ResultSend)
    /\ WF_vars(PollNext)
    /\ \A c \in Chains :
          /\ WF_vars(SessionPoll(c))
          /\ WF_vars(StartWithReceiver(c))
          /\ WF_vars(DropReceiver(c))
          /\ WF_vars(ClosePath(c))
          /\ WF_vars(JoinRemove(c))

SpecFair == Spec /\ Fairness

\* An AverageDelayDecoder on its own: durations are pushed, then it is closed.
AveragePush(duration) ==
    /\ ~averageDecoder.closed
    /\ Len(averageDecoder.durations) < MaxPushed
    /\ averageDecoder' = [averageDecoder EXCEPT
                             !.durations = AveragePushDuration(@, duration)]
    /\ UNCHANGED <<now, storeAlive, map, sending, chan, rcv, drv, removers,
                   results, resWait, stream, calls, nClosed, lost, lastPush,
                   scenario>>

AverageFinish ==
    /\ ~averageDecoder.closed
    /\ averageDecoder' = [averageDecoder EXCEPT
                             !.closed = TRUE,
                             !.bits = AverageClose(averageDecoder.durations)]
    /\ UNCHANGED <<now, storeAlive, map, sending, chan, rcv, drv, removers,
                   results, resWait, stream, calls, nClosed, lost, lastPush,
                   scenario>>

NextAverage ==
    \/ \E duration \in 0..MaxDuration : AveragePush(duration)
    \/ AverageFinish

SpecAverage == Init /\ [][NextAverage]_vars

\* The registry whose handle may be dropped.
NextDrop == Next \/ DropStore

SpecDrop == Init /\ [][NextDrop]_vars

\* The registry whose driver tasks may be cancelled.
NextAbort ==
    \/ Next
    \/ \E c \in Chains : Abort(c)
    \/ \E c \in Chains : GuardRemove(c)

SpecAbort == Init /\ [][NextAbort]_vars

\* ================================================================= claims
\* The driver of chain c is running (spawned and neither returned nor dropped).
Live(c) == drv[c].pc \notin {"none", "done", "aborted"}

\* A push_signal call for key k happens in this step.
Pushes(k) == calls' = calls + 1 /\ lastPush'.key = k

\* C1: push_signal calls for one key that race the creation of its session
\* create exactly one session (one map entry, one driver task) and every other
\* call is routed into that session's inbound channel; two open sessions of
\* one key never exist.  As a property: a key has at most one chain whose
\* receiver exists, that chain is the one the map names and its driver is
\* running; a call for a vacant key creates exactly one chain and maps the key
\* to it, a call for an occupied key creates none and touches no channel but
\* the one the map names.
ExactlyOneSessionPerKey ==
    /\ [](\A c1, c2 \in Chains :
            /\ (rcv[c1] /\ rcv[c2] /\ drv[c1].key = drv[c2].key) => c1 = c2
            /\ drv[c1].open => rcv[c1]
            /\ rcv[c1] => Live(c1) /\ map[drv[c1].key] = c1)
    /\ [][\A k \in Keys : Pushes(k) =>
            IF map[k] = None
            THEN /\ map'[k] # None
                 /\ drv'[map'[k]].open /\ drv'[map'[k]].key = k
                 /\ ~Live(map'[k])
                 /\ \A c \in Chains \ {map'[k]} : drv'[c] = drv[c] /\ rcv'[c] = rcv[c]
                 /\ chan' = chan
            ELSE /\ map' = map /\ drv' = drv /\ rcv' = rcv
                 /\ \A c \in Chains \ {map[k]} : chan'[c] = chan[c]
                 /\ lastPush'.outcome = "sent" =>
                        /\ Len(chan'[map[k]]) = Len(chan[map[k]]) + 1
                        /\ drv[map[k]].key = k]_vars

\* C1 witness: a key has an open session and two further calls for the key
\* were routed into its channel.
ExactlyOneSessionPerKeyWitness ==
    \E c \in Chains : drv[c].open /\ map[drv[c].key] = c /\ Len(chan[c]) = 2

\* C2: when an open session with deadline D reads a signal whose instant is
\* >= D it closes without pushing a duration for it, and that same signal is
\* still the first one of the channel, to seed the next generation: the
\* resumption that closes on a late signal takes from the channel only the
\* signals it accepted.
LateSignalSeedsNext ==
    [][\A c \in Chains :
          (drv[c].pc = "await" /\ drv'[c].pc = "start" /\ drv'[c].res.why = "late") =>
              /\ Len(drv'[c].res.bits) = Len(drv[c].bits) + (drv'[c].res.taken - drv[c].taken)
              /\ Len(chan'[c]) = Len(chan[c]) - (drv'[c].res.taken - drv[c].taken)]_vars

\* C3: every signal for which push_signal returned Ok is consumed exactly once
\* by a session of its key, as a seed or as the end of one pushed duration:
\* none is taken and discarded, none is left in a channel whose receiver is
\* dropped.
SentSignalsConsumed == ~lost.late /\ ~lost.discarded

\* The session of chain c has just closed on its timer.
TimedOut(c) == drv[c].pc = "start" /\ drv[c].res.why = "timer"

\* C4 as stated: a session whose last accepted signal has instant t and which
\* receives no further signal closes exactly when the clock reads
\* t + timeout_duration.
ClosesAtTimeout ==
    \A c \in Chains : TimedOut(c) => now = drv[c].res.last + TimeoutDuration

\* C4 amended: such a session never closes before t + timeout_duration; it
\* closes exactly then, and is not awaited beyond its deadline, unless that
\* instant had passed before the session was awaited with this deadline (its
\* driver was suspended in the result send of the previous generation, or the
\* signal was delivered late), and then it closes when resumed; the decoder
\* has received exactly one duration per accepted signal.
ClosesAtTimeoutOnceAwaited ==
    \A c \in Chains :
        /\ TimedOut(c) =>
              /\ now >= drv[c].res.last + TimeoutDuration
              /\ ~drv[c].res.overdue => now = drv[c].res.last + TimeoutDuration
              /\ Len(drv[c].res.bits) = drv[c].res.taken
        /\ drv[c].open =>
              /\ drv[c].deadline = drv[c].last + TimeoutDuration
              /\ Len(drv[c].bits) = drv[c].taken
              /\ (drv[c].pc = "await" /\ ~drv[c].overdue) => now <= drv[c].deadline

\* C4 witness: a session awaited in time closes on its timer after it
\* accepted a signal.
ClosesAtTimeoutWitness ==
    \E c \in Chains : TimedOut(c) /\ ~drv[c].res.overdue /\ drv[c].res.taken >= 1

\* The items published for key k, oldest first.
ItemsOf(k) == SelectSeq(stream \o results, LAMBDA item : item.key = k)

\* The decodings of the durations between consecutive instants of ts.
Decoded(ts) == [i \in 1..(Len(ts) - 1) |-> (ts[i + 1] - ts[i]) >= Threshold]

Holding == {c \in Chains : drv[c].res.ord # 0}

\* The items sent on the result channel so far, oldest first.
Published == stream \o results

RemovalPending(k) ==
    LET c == map[k] IN
    \/ drv[c].pc = "close"
    \/ drv[c].pc = "join" /\ drv[c].remPending

AbortedKeyRemoved ==
    \A k \in Keys :
        (storeAlive /\ map[k] # None /\ drv[map[k]].pc = "aborted") =>
            map[k] \in removers

SendAwaitedOutsideLock == sending.chain = None

\* The decoder state chain c has after this step: that of the result when the
\* step closed the session, that of the session otherwise.
DecoderAfter(c) == IF drv'[c].pc = "start" THEN drv'[c].res ELSE drv'[c]

LastInstantMonotonic ==
    [][\A c \in Chains :
          (drv[c].pc = "await" /\ drv'[c].pc \in {"await", "start"}) =>
              DecoderAfter(c).last >= drv[c].last]_vars

\* The deadline against which the i-th signal of q is read, when the ones
\* before it were accepted and armed is the deadline of the timer.
DeadlineInForce(q, i, armed) == IF i = 1 THEN armed ELSE q[i - 1].timeout_instant

\* C14: in one resumption a session drains every ready signal, judging each
\* against the deadline in force when it is read (the armed deadline for the
\* first, the timeout_instant of the signal accepted before for the others);
\* after a resumption that accepted at least one signal and did not close,
\* the channel is empty and the armed deadline is the timeout_instant of the
\* last accepted signal.  A resumption that closes on a signal read it at or
\* past the deadline in force and accepted all those before it.
DrainsReadySignals ==
    [][\A c \in Chains :
          (/\ drv[c].pc = "await"
           /\ \/ drv'[c].pc = "start"
              \/ drv'[c].pc = "await" /\ drv'[c].taken # drv[c].taken) =>
              LET a == DecoderAfter(c)
                  n == a.taken - drv[c].taken
                  q == chan[c]
              IN  /\ \A i \in 1..n : q[i].instant < DeadlineInForce(q, i, drv[c].deadline)
                  /\ drv'[c].pc = "await" =>
                        /\ n = Len(q) /\ chan'[c] = <<>>
                        /\ n >= 1 => drv'[c].deadline = q[n].timeout_instant
                        /\ n = 0 => drv'[c].deadline = drv[c].deadline
                        /\ now < drv'[c].deadline
                  /\ (drv'[c].pc = "start" /\ a.why = "late") =>
                        /\ n < Len(q)
                        /\ q[n + 1].instant >= DeadlineInForce(q, n + 1, drv[c].deadline)
                        /\ chan'[c] = SubSeq(q, n + 2, Len(q))
                  /\ (drv'[c].pc = "start" /\ a.why \in {"timer", "gone"}) =>
                        n = Len(q) /\ chan'[c] = <<>>]_vars

\* C14 witness: a session accepted two signals in one resumption and stayed
\* open with its timer re-armed.
DrainsReadySignalsWitness ==
    \E c \in Chains : drv[c].pc = "await" /\ drv[c].batch = 2

\* C15: the driver never resumes a session that is Closed (the panic branch
\* of the session's poll is unreachable): whenever the driver awaits a
\* session, or is about to, that session is Open and owns its receiver, and a
\* driver past the close of its last generation never awaits again.
ClosedSessionNeverResumed ==
    \A c \in Chains :
        /\ drv[c].pc \in {"await", "send_open"} => drv[c].open /\ rcv[c]
        /\ SessionReady(c) => drv[c].open
        /\ drv[c].pc \in {"drop", "close", "join", "send_last", "done"} =>
              ~drv[c].open /\ ~SessionReady(c)

\* C15 witness: one driver found its next generation Closed and does not
\* await it, while another found its next generation Open and is about to
\* await it.
ClosedSessionNeverResumedWitness ==
    \E b, c \in Chains : drv[b].pc = "drop" /\ drv[c].pc = "send_open"

\* C16: start_with_receiver takes at most one buffered signal: if one is
\* buffered (even with the senders gone) the new session is Open with
\* last_signal_instant its instant and deadline its timeout_instant, and no
\* duration is pushed for it; if none is, the session is Closed and nothing
\* is consumed.
StartTakesOneSeed ==
    [][\A c \in Chains :
          (drv[c].pc = "start" /\ drv'[c].pc # "start") =>
              IF chan[c] # <<>>
              THEN /\ drv'[c].open /\ rcv'[c]
                   /\ drv'[c].pc \in {"await", "send_open"}
                   /\ drv'[c].last = Head(chan[c]).instant
                   /\ drv'[c].deadline = Head(chan[c]).timeout_instant
                   /\ drv'[c].bits = <<>> /\ drv'[c].taken = 0
                   /\ chan'[c] = Tail(chan[c])
              ELSE /\ ~drv'[c].open
                   /\ drv'[c].pc = "drop"
                   /\ chan'[c] = chan[c]]_vars

\* C16 witness: a session was seeded from a buffered signal after the
\* senders of its channel were gone, and no duration was pushed for the seed.
StartTakesOneSeedWitness ==
    \E c \in Chains :
        /\ drv[c].pc = "send_open" /\ drv[c].bits = <<>>
        /\ ~SenderAlive(map, c)

\* C17: when a generation finishes and the next one is open the driver
\* leaves the map unchanged, the key staying mapped to the same sender; the
\* key is removed only when the next generation is not open, by the driver
\* on its close path, which then only finishes its result send and ends.
RolloverKeepsEntry ==
    /\ [](\A c \in Chains :
            drv[c].pc \in {"await", "send_open", "start", "drop"} =>
                map[drv[c].key] = c)
    /\ [][/\ \A c \in Chains :
                (drv[c].pc = "start" /\ drv'[c].pc \in {"await", "send_open"}) =>
                    /\ map' = map
                    /\ drv'[c].key = drv[c].key
                    /\ map'[drv[c].key] = c
          /\ \A k \in Keys :
                (map[k] # None /\ map'[k] # map[k]) =>
                    LET c == map[k] IN
                    /\ map'[k] = None
                    /\ drv[c].pc \in {"close", "join"}
                    /\ ~drv[c].open /\ ~rcv[c]
                    /\ drv'[c].pc \in {"join", "done"}
                    /\ ~drv'[c].remPending]_vars

\* C17 witness: a chain has rolled over to an open generation with its key
\* still mapped to its sender, after two generations have finished.
RolloverKeepsEntryWitness ==
    \E c \in Chains :
        /\ drv[c].pc = "send_open" /\ map[drv[c].key] = c /\ rcv[c]
        /\ nClosed >= 2

\* C18: a removal issued on behalf of one chain (by its driver, or by the
\* task a dropped guard spawned) never deletes the entry of a newer chain of
\* the same key: a chain has at most one removal outstanding, the entry holds
\* that chain's sender until the removal takes effect, and an entry is only
\* ever deleted by the removal of the chain it names.
RemovalHitsOwnEntry ==
    /\ [](\A c \in Chains :
            /\ c \in removers =>
                  /\ drv[c].pc = "aborted"
                  /\ map[drv[c].key] = c
            /\ drv[c].remPending =>
                  /\ drv[c].pc = "join" /\ c \notin removers
                  /\ map[drv[c].key] = c
            /\ drv[c].pc = "close" => map[drv[c].key] = c /\ c \notin removers)
    /\ [][\A k \in Keys :
            (map[k] # None /\ map'[k] # map[k]) =>
                LET c == map[k] IN
                /\ map'[k] = None
                /\ drv[c].key = k
                /\ ~rcv[c]
                /\ \/ c \in removers /\ c \notin removers'
                   \/ drv[c].pc = "close"
                   \/ drv[c].pc = "join" /\ drv[c].remPending /\ ~drv'[c].remPending]_vars

\* C18 witness: the removal spawned by the guard of a dropped driver has
\* taken effect and the key is mapped to a newer chain with a live session.
RemovalHitsOwnEntryWitness ==
    \E c \in Chains :
        /\ drv[c].pc = "aborted" /\ c \notin removers
        /\ \E b \in Chains \ {c} :
              map[drv[c].key] = b /\ drv[b].open /\ drv[b].key = drv[c].key

\* C19: provided the result stream keeps being consumed and no task is
\* aborted, every push_signal call eventually returns: a call suspended in its
\* send with the map lock held (and with it every caller and every driver
\* waiting for the lock) is eventually released, with success or failure.
EveryPushReturns == (sending # NoSend) ~> (sending = NoSend)

\* C19 witness: a push_signal is suspended on a full channel holding the map
\* lock, while a driver waits for the lock to remove its key and another
\* driver waits for room on the result channel.
EveryPushReturnsWitness ==
    /\ sending # NoSend
    /\ \E c \in Chains : drv[c].pc = "join" /\ drv[c].remPending
    /\ resWait # <<>>

\* C20 as stated: close() after 0 or 1 pushed durations yields the empty
\* sequence; after n >= 2 it yields n booleans, the i-th telling whether
\* duration[i] >= mean, the mean being the sum of the durations divided by n
\* (the exact mean), in push order.
AverageBitsAgainstExactMean ==
    averageDecoder.closed =>
        LET ds == averageDecoder.durations
            n  == Len(ds)
        IN  IF n < 2 THEN averageDecoder.bits = <<>>
            ELSE /\ Len(averageDecoder.bits) = n
                 /\ \A i \in 1..n :
                       averageDecoder.bits[i] <=> (n * ds[i] >= DurationSum(ds))

\* C20 amended: the mean is the sum divided by n and truncated to a whole
\* nanosecond, so the i-th boolean tells whether duration[i] is at least the
\* truncated mean, that is whether n * (duration[i] + 1ns) exceeds the sum.
AverageBitsAgainstTruncatedMean ==
    averageDecoder.closed =>
        LET ds == averageDecoder.durations
            n  == Len(ds)
        IN  IF n < 2 THEN averageDecoder.bits = <<>>
            ELSE /\ Len(averageDecoder.bits) = n
                 /\ \A i \in 1..n :
                       averageDecoder.bits[i] <=> (n * (ds[i] + 1) > DurationSum(ds))

\* C20 witness: close() was called after three durations, one of which is
\* below the exact mean and not below the truncated one.
AverageBitsAgainstTruncatedMeanWitness ==
    /\ averageDecoder.closed
    /\ Len(averageDecoder.durations) = 3
    /\ \E i \in 1..3 :
          /\ averageDecoder.bits[i]
          /\ 3 * averageDecoder.durations[i] < DurationSum(averageDecoder.durations)
====
